---- MODULE Spec2Model ----
(***************************************************************************)
(* Model of src/main.py: the x-rates scraper.  One run of main() walks the *)
(* rows of the input table, fetches every year from the row's Fetched Year *)
(* to the current year with a retry budget, builds the monthly records,    *)
(* merges them into the per-currency sheet of All-Xrates-Data.xlsx (with a *)
(* backup sheet under Backups/) and finally rewrites Inputs.xlsx.          *)
(*                                                                         *)
(* Floats are modelled as exact rationals <<numerator, denominator>>.      *)
(* A sheet is a sequence of records; a workbook is a function from sheet   *)
(* names to sheets.  The pages of the rate source, a sheet that cannot be  *)
(* read and a write that is refused are choices of the environment.  The   *)
(* calendar moves between invocations only, and the input table main()     *)
(* reads is the sheet update_input_file rewrites.  An exception that       *)
(* leaves main() ends the invocation: exit names it and the files stay as  *)
(* they were written up to then.                                           *)
(*                                                                         *)
(* convert_price_for_uom and convert_price_for_currency are not called by  *)
(* main(); each is modelled as a call on a priced-item table, one step per *)
(* iteration of its loop, the caller's table being changed in place.       *)
(***************************************************************************)
EXTENDS Integers, Sequences, FiniteSets, TLC

VARIABLES
    world,        \* the environment: the pages the source serves, the disk
    now,          \* datetime.now(): [year, month]
    ticks,        \* months elapsed since Init
    runs,         \* invocations of main() started so far
    inputs,       \* Inputs.xlsx, sheet "All Currencies": rows [cur, fy]
    tables,       \* All-Xrates-Data.xlsx: sheet name -> rows
    backups,      \* Backups/: <<month, year, sheet name>> -> rows
    pc,           \* position of main(): idle, row, year, fetch, parse, endrow, finish
    exit,         \* how the last invocation ended: running, returned, or the exception
    input_df,     \* main(): the input table as read at the start of the run
    idx,          \* main(): position of the row loop in input_df
    curr,         \* main(): row['Initial Currency']
    year,         \* main(): the year being fetched
    retry,        \* main(): remaining retry budget of the year
    lists,        \* main(): the lines of the page fetched last
    data,         \* main(): records accumulated for the row
    max_years,    \* main(): currency -> max(df['Year'])
    max_month,    \* main(): currency -> max(df['Month'])
    attempts,     \* history: requests issued for the (currency, year) fetched last
    lastFetch,    \* history: outcome of the year fetched last for the current row
    startFY,      \* history: the Fetched Year column as read at the start of the run
    produced,     \* history: currencies for which a record was built in this run
    merged,       \* history: currencies for which writing_all_file ran in this run
    lastParse,    \* history: the record loop run last: its lines and outcome
    lastMerge,    \* history: the merge run last: inputs, environment and outcome
    prevMerge,    \* history: per sheet, the last merge that returned
    attempted,    \* history: the <<row, year>> whose requests began, in order, this run
    built,        \* history: the <<currency, year>> a record was built for in this run
    skipped,      \* history: the <<row, year>> given up in this run
    holes,        \* history: the <<row, year>> given up in earlier runs
    runYear,      \* history: the current year of the run started last
    priced,       \* the priced-item table df a converter was called with
    temp_df,      \* convert_price_for_uom: column "UOM Converted Price" of temp_df
    combos,       \* the unique combinations a converter still has to iterate
    cpc,          \* position of the converter: off, call_uom, uom, uom_returned,
                  \* uom_raised, call_cur, cur, cur_returned, cur_raised
    cexc,         \* the exception that left the converter, or none
    ret,          \* the frame the converter returned
    lastPass      \* history: the iteration run last: its key, the table before it

\* the state of main() and of the files it works on
mainVars == << world, now, ticks, runs, inputs, tables, backups, pc, exit, input_df, idx,
               curr, year, retry, lists, data, max_years, max_month, attempts,
               lastFetch, startFY, produced, merged, lastParse, lastMerge, prevMerge,
               attempted, built, skipped, holes, runYear >>

\* the state of a price conversion
convVars == << priced, temp_df, combos, cpc, cexc, ret, lastPass >>

vars == << mainVars, convVars >>

-----------------------------------------------------------------------------
(* Bounds of the model *)

MaxRuns == 2
MaxTicks == 1
MaxLines == 2
MaxItems == 3

-----------------------------------------------------------------------------
(* Rationals *)

RatEq(a, b) == a[1] * b[2] = b[1] * a[2]
RatMul(a, b) == << a[1] * b[1], a[2] * b[2] >>
RatZero == << 0, 1 >>
RatOne == << 1, 1 >>

-----------------------------------------------------------------------------
(* Sequence helpers *)

RECURSIVE SeqMaxFrom(_, _, _)
SeqMaxFrom(s, i, m) ==
    IF i > Len(s) THEN m
    ELSE SeqMaxFrom(s, i + 1, IF s[i] > m THEN s[i] ELSE m)

\* max(df[col]) of a non-empty frame
ColMax(df, col) == SeqMaxFrom([i \in 1..Len(df) |-> df[i][col]], 2, df[1][col])

RemoveAt(s, i) == [j \in 1..(Len(s) - 1) |-> IF j < i THEN s[j] ELSE s[j + 1]]

SamePeriod(a, b) == a.Year = b.Year /\ a.Month = b.Month

\* a sorts before b in sort_values(by=['Year','Month'], ascending=False)
Before(a, b) == a.Year > b.Year \/ (a.Year = b.Year /\ a.Month > b.Month)

-----------------------------------------------------------------------------
(* RateRecordBuilder: the record loop of main() *)

month_mapping ==
    [m \in {"Jan", "Feb", "Mar", "Apr", "May", "Jun",
            "Jul", "Aug", "Sep", "Oct", "Nov", "Dec"} |->
        CASE m = "Jan" -> 1  [] m = "Feb" -> 2  [] m = "Mar" -> 3
          [] m = "Apr" -> 4  [] m = "May" -> 5  [] m = "Jun" -> 6
          [] m = "Jul" -> 7  [] m = "Aug" -> 8  [] m = "Sep" -> 9
          [] m = "Oct" -> 10 [] m = "Nov" -> 11 [] m = "Dec" -> 12]

\* the tokens float() accepts, with their values; float() of any other token
\* raises ValueError
FloatTokens == {"2.00", "0.50", "0", "-2.00"}

FloatValue(tok) ==
    CASE tok = "2.00"  -> << 2, 1 >>
      [] tok = "0.50"  -> << 1, 2 >>
      [] tok = "0"     -> << 0, 1 >>
      [] tok = "-2.00" -> << -2, 1 >>

\* a variant that answers 0 for every rate that is not positive
Inverse_ZeroUnlessPositive(crate) ==
    IF crate[1] > 0 THEN << crate[2], crate[1] >> ELSE RatZero

\* try: fcrate = 1/crate; except: fcrate = 0
Inverse(crate) ==
    IF crate[1] = 0 THEN RatZero
    ELSE IF crate[1] > 0 THEN << crate[2], crate[1] >>
    ELSE << -crate[2], -crate[1] >>

\* extract_date(month, year): date(year, month_mapping[month], 1)
extract_date(month, y) == [year |-> y, month |-> month_mapping[month]]

Record(c, y, fmonth, crate) ==
    [Currency1 |-> c, Currency2 |-> "USD", Year |-> y, Month |-> fmonth,
     toUSD |-> crate, fromUSD |-> Inverse(crate)]

\* for lis in lists: ... data.append({...}); an exception ends the loop
RECURSIVE RecordLoop(_, _, _, _, _)
RecordLoop(c, y, ls, i, acc) ==
    IF i > Len(ls) THEN [data |-> acc, exc |-> "none"]
    ELSE LET lis_text == ls[i] IN
         IF Len(lis_text) <= 1 THEN RecordLoop(c, y, ls, i + 1, acc)
         ELSE IF lis_text[2] \notin FloatTokens
              THEN [data |-> acc, exc |-> "ValueError"]
         ELSE IF lis_text[1] \notin DOMAIN month_mapping
              THEN [data |-> acc, exc |-> "KeyError"]
         ELSE RecordLoop(c, y, ls, i + 1,
                  Append(acc, Record(c, y, extract_date(lis_text[1], y).month,
                                     FloatValue(lis_text[2]))))

-----------------------------------------------------------------------------
(* HistoricalMergeStore: writing_all_file *)

\* the scan of existing_df for the current period: the first match, else -1
RECURSIVE ScanFrom(_, _, _, _)
ScanFrom(df, i, cm, cy) ==
    IF i > Len(df) THEN -1
    ELSE IF df[i].Month = cm /\ df[i].Year = cy THEN i
    ELSE ScanFrom(df, i + 1, cm, cy)

index_to_delete(existing_df, cm, cy) == ScanFrom(existing_df, 1, cm, cy)

\* hist_df.drop_duplicates(subset=['Year','Month']): the first of each period stays
RECURSIVE DropFrom(_, _, _)
DropFrom(df, i, acc) ==
    IF i > Len(df) THEN acc
    ELSE IF \E j \in 1..Len(acc) : SamePeriod(acc[j], df[i])
         THEN DropFrom(df, i + 1, acc)
         ELSE DropFrom(df, i + 1, Append(acc, df[i]))

drop_duplicates(df) == DropFrom(df, 1, << >>)

\* df.sort_values(by=['Year','Month'], ascending=False): a stable sort
InsertSorted(acc, r) ==
    LET later == {j \in 1..Len(acc) : Before(r, acc[j])}
        k == IF later = {} THEN Len(acc) + 1
             ELSE CHOOSE j \in later : \A l \in later : j <= l
    IN  [j \in 1..(Len(acc) + 1) |->
            IF j < k THEN acc[j] ELSE IF j = k THEN r ELSE acc[j - 1]]

RECURSIVE SortFrom(_, _, _)
SortFrom(df, i, acc) ==
    IF i > Len(df) THEN acc ELSE SortFrom(df, i + 1, InsertSorted(acc, df[i]))

sort_values(df) == SortFrom(df, 1, << >>)

\* touch_excel(df, file_path, sheet_name): the sheet is created or replaced,
\* the other sheets of the file stay
touch_excel(file, sheet, df) == (sheet :> df) @@ file

BackupName(df, product) == << ColMax(df, "Month"), ColMax(df, "Year"), product >>

\* the except: branch of writing_all_file, entered with the files as the try
\* block left them
Fallback(df, product, t, b, env, why) ==
    LET sorted == sort_values(df)
        t2 == touch_excel(t, product, sorted)
    IN  IF ~env.w3
        THEN [tables |-> t, backups |-> b, exc |-> "Exception", why |-> why,
              main |-> (why = "backup"), backup |-> FALSE]
        ELSE IF ~env.w4
        THEN [tables |-> t2, backups |-> b, exc |-> "Exception", why |-> why,
              main |-> TRUE, backup |-> FALSE]
        ELSE [tables |-> t2,
              backups |-> touch_excel(b, BackupName(df, product), sorted),
              exc |-> "none", why |-> why, main |-> TRUE, backup |-> TRUE]

\* existing_df after the row of the current period was dropped
Purged(existing_df, cm, cy) ==
    LET k == index_to_delete(existing_df, cm, cy)
    IN  IF k # -1 THEN RemoveAt(existing_df, k) ELSE existing_df

\* The result: the two files, the exception that left the function (exc), why
\* the except: branch was entered (why), and whether the sheet and the backup
\* were written at all (main, backup).
\* env: load = pd.read_excel of the sheet succeeds; w1..w4 = the four
\* touch_excel calls, in program order, do not raise
writing_all_file(df, product, t, b, nowv, env) ==
    IF product \notin DOMAIN t \/ ~env.load
    THEN Fallback(df, product, t, b, env, "load")
    ELSE LET existing_df == Purged(t[product], nowv.month, nowv.year)
             hist_df == sort_values(drop_duplicates(existing_df \o df))
             t1 == touch_excel(t, product, hist_df)
         IN  IF ~env.w1 THEN Fallback(df, product, t, b, env, "write")
             ELSE IF ~env.w2 THEN Fallback(df, product, t1, b, env, "backup")
             ELSE [tables |-> t1,
                   backups |-> touch_excel(b, BackupName(df, product), existing_df),
                   exc |-> "none", why |-> "none", main |-> TRUE, backup |-> TRUE]

MergeEnv == [load : BOOLEAN, w1 : BOOLEAN, w2 : BOOLEAN, w3 : BOOLEAN, w4 : BOOLEAN]

\* a reliable disk reads every sheet that exists and takes every write; an
\* unreliable one may fail to read a sheet that exists (a corrupt or
\* misshapen sheet) and may refuse a write (the file is open elsewhere:
\* PermissionError)
DiskEnv(disk) ==
    IF disk = "reliable"
    THEN {e \in MergeEnv : e.load /\ e.w1 /\ e.w2 /\ e.w3 /\ e.w4}
    ELSE MergeEnv

-----------------------------------------------------------------------------
(* InputTrackerUpdater: update_input_file *)

\* a variant in which fetch_date keeps the value of the row before when the
\* lookup of the row's currency fails
RECURSIVE StaleFrom(_, _, _, _, _)
StaleFrom(df, years, i, fetch_date, acc) ==
    IF i > Len(df) THEN acc
    ELSE LET d == IF df[i].cur \in DOMAIN years THEN years[df[i].cur]
                  ELSE fetch_date
         IN  StaleFrom(df, years, i + 1, d,
                       Append(acc, IF d = -1 THEN df[i] ELSE [df[i] EXCEPT !.fy = d]))

update_input_file_Stale(df, years) == StaleFrom(df, years, 1, -1, << >>)

\* a variant that writes the greatest fetched year into every row, whatever
\* the row's currency
update_input_file_AnyCurrency(df, years) ==
    LET top == CHOOSE y \in {years[c] : c \in DOMAIN years} :
                   \A c \in DOMAIN years : years[c] <= y
    IN  [i \in 1..Len(df) |-> [df[i] EXCEPT !.fy = top]]

update_input_file(df, years) ==
    [i \in 1..Len(df) |->
        IF df[i].cur \in DOMAIN years
        THEN [df[i] EXCEPT !.fy = years[df[i].cur]]
        ELSE df[i]]

-----------------------------------------------------------------------------
(* The environment: the pages of the rate source *)

\* a variant with one attempt too many
RetryBudget_OneMore == 5 + 1

RetryBudget == 5

LineDecHigh == << "Dec", "2.00" >>
LineDecLow == << "Dec", "0.50" >>
LineJan == << "Jan", "2.00" >>
LineTotal == << "Total" >>
LineFoo == << "Foo", "2.00" >>

\* ul.text.split("\n") of the pages the source may answer with
Responses ==
    { << LineTotal >>,
      << LineDecHigh >>,
      << LineDecLow >>,
      << LineDecHigh, LineDecLow >>,
      << LineTotal, LineJan, LineDecHigh >>,
      << LineFoo, LineDecHigh >>,
      << LineJan >> }

NoSheets == [k \in {} |-> << >>]
NoYears == [k \in {} |-> 0]

NoFetch == [on |-> FALSE, year |-> 0, attempts |-> 0, ok |-> FALSE, before |-> << >>]
NoParse == [on |-> FALSE, lists |-> << >>, before |-> << >>, after |-> << >>,
            exc |-> "none"]
NoMerge == [on |-> FALSE, product |-> "", df |-> << >>, sheet |-> FALSE,
            loaded |-> FALSE, existing |-> << >>, now |-> [year |-> 0, month |-> 0],
            name |-> << 0, 0, "" >>, why |-> "none", exc |-> "none",
            main |-> FALSE, backup |-> FALSE,
            prev |-> [on |-> FALSE, now |-> [year |-> 0, month |-> 0], ncur |-> 0]]
NoPrev == [on |-> FALSE, now |-> [year |-> 0, month |-> 0], ncur |-> 0]

\* the records of df for the period p
OfPeriod(df, p) == {i \in 1..Len(df) : df[i].Year = p.year /\ df[i].Month = p.month}

-----------------------------------------------------------------------------
(* UnitConverter and CurrencyConverter: convert_price_for_uom and           *)
(* convert_price_for_currency.  The priced-item table is a sequence of      *)
(* rows, its index the positions 1..Len; a column the table does not have   *)
(* yet reads NaN in every row.                                              *)

\* NaN: the value of a float cell nothing was assigned to
NaN == << 0, 0 >>
IsNaN(a) == a[2] = 0

\* float64 arithmetic of two cells: NaN propagates
FloatMul(a, b) == IF IsNaN(a) \/ IsNaN(b) THEN NaN ELSE RatMul(a, b)
FloatDiv(a, b) ==
    IF IsNaN(a) \/ IsNaN(b) THEN NaN ELSE << a[1] * b[2], a[2] * b[1] >>

SameFloat(a, b) ==
    IF IsNaN(a) \/ IsNaN(b) THEN IsNaN(a) /\ IsNaN(b) ELSE RatEq(a, b)

\* uom_config["mass_conversion_rates"]: unit name in lower case -> factor to
\* the canonical mass unit; a name that is not a key raises KeyError
mass_conversion_rates ==
    [u \in {"kg", "lb"} |-> IF u = "kg" THEN << 1, 1 >> ELSE << 9, 20 >>]

\* str.lower()
Lower(u) == CASE u = "KG" -> "kg" [] u = "LB" -> "lb" [] OTHER -> u

\* drop_duplicates() of a sequence of keys: first occurrences, in order
RECURSIVE UniqueFrom(_, _, _)
UniqueFrom(keys, i, acc) ==
    IF i > Len(keys) THEN acc
    ELSE UniqueFrom(keys, i + 1,
                    IF \E j \in 1..Len(acc) : acc[j] = keys[i] THEN acc
                    ELSE Append(acc, keys[i]))

UomPair(row) == << row.InitialUnit, row.FinalUnit >>

\* df[["Initial Unit", "Final Unit"]].drop_duplicates()
unique_uom_combos(df) == UniqueFrom([i \in 1..Len(df) |-> UomPair(df[i])], 1, << >>)

\* the rows of df selected by the boolean mask of the pair
UomMask(df, pair) == {i \in 1..Len(df) : UomPair(df[i]) = pair}

\* temp_df["UOM Converted Price"] != NameError: a float never equals the
\* exception class, so the comparison is True in every row, NaN included
NotNameError(cell) == TRUE

\* a variant of the masked assignment that pairs the values with the masked
\* rows by position instead of by index label
LocAssign_ByPosition(df, mask, temp) ==
    [i \in 1..Len(df) |->
        IF i \in mask
        THEN [df[i] EXCEPT !.UOMConvertedPrice =
                 temp[Cardinality({j \in mask : j <= i})]]
        ELSE df[i]]

\* df.loc[mask, "UOM Converted Price"] = temp_df.loc[temp_df[...] != NameError]:
\* the frame on the right is aligned with the masked rows on the index; a
\* masked row whose label the frame lacks gets NaN, other rows are not touched
LocAssign(df, mask, temp) ==
    [i \in 1..Len(df) |->
        IF i \in mask
        THEN [df[i] EXCEPT !.UOMConvertedPrice =
                 IF NotNameError(temp[i]) THEN temp[i] ELSE NaN]
        ELSE df[i]]

\* one iteration of the loop of convert_price_for_uom over the pair; temp is
\* the column "UOM Converted Price" of temp_df
UomPassOf(df, temp, pair) ==
    LET initial_unit == Lower(pair[1])
        final_unit == Lower(pair[2])
        mask == UomMask(df, pair)
    IN  IF initial_unit \notin DOMAIN mass_conversion_rates
        THEN [df |-> df, temp |-> temp, exc |-> "KeyError"]
        ELSE
          LET \* a Series of the masked rows assigned to a column of temp_df:
              \* aligned on the index, NaN in every other row
              t1 == [i \in 1..Len(df) |->
                        IF i \in mask
                        THEN FloatMul(df[i].InitialPrice,
                                      mass_conversion_rates[initial_unit])
                        ELSE NaN]
          IN  IF final_unit \notin DOMAIN mass_conversion_rates
              THEN [df |-> df, temp |-> t1, exc |-> "KeyError"]
              ELSE
                LET t2 == [i \in 1..Len(df) |->
                              FloatDiv(t1[i], mass_conversion_rates[final_unit])]
                IN  [df |-> LocAssign(df, mask, t2), temp |-> t2, exc |-> "none"]

\* xrate_currency_conversion: the monthly rates it can resolve
RateTable ==
    (<< "EUR", "USD", 2023, 6 >> :> << 11, 10 >>)
        @@ (<< "EUR", "USD", 2023, 7 >> :> << 6, 5 >>)
        @@ (<< "GBP", "USD", 2023, 6 >> :> << 5, 4 >>)

\* xcc.get_conversion_rate(from_, to_, year_, month_): the rate of the period,
\* or an error when the period cannot be resolved
get_conversion_rate(from_, to_, year_, month_) ==
    LET k == << from_, to_, year_, month_ >>
    IN  IF k \in DOMAIN RateTable
        THEN [ok |-> TRUE, rate |-> RateTable[k]]
        ELSE [ok |-> FALSE, rate |-> NaN]

CurrencyTriple(row) == << row.InitialCurrency, row.FinalCurrency, row.Date >>

\* df[["Initial Currency", "Final Currency", "Date"]].drop_duplicates()
unique_currency_combos(df) ==
    UniqueFrom([i \in 1..Len(df) |-> CurrencyTriple(df[i])], 1, << >>)

\* df["Price"] = df["Conversion Rate"] * df["UOM Converted Price"]
WithPrice(df) ==
    [i \in 1..Len(df) |->
        [df[i] EXCEPT !.Price = FloatMul(df[i].ConversionRate,
                                         df[i].UOMConvertedPrice)]]

\* df.loc[mask of the triple, "Conversion Rate"] = currency_conversion_rate
WithRate(df, triple, rate) ==
    [i \in 1..Len(df) |->
        IF CurrencyTriple(df[i]) = triple
        THEN [df[i] EXCEPT !.ConversionRate = rate]
        ELSE df[i]]

\* a variant of the iteration that computes Price before the rate is set
CurrencyPassOf_PriceFirst(df, triple) ==
    LET r == get_conversion_rate(triple[1], triple[2], triple[3].year,
                                 triple[3].month)
    IN  IF ~r.ok THEN [df |-> df, exc |-> "LookupError"]
        ELSE [df |-> WithRate(WithPrice(df), triple, r.rate), exc |-> "none"]

\* one iteration of the loop of convert_price_for_currency over the triple
CurrencyPassOf(df, triple) ==
    LET r == get_conversion_rate(triple[1], triple[2], triple[3].year,
                                 triple[3].month)
    IN  IF ~r.ok THEN [df |-> df, exc |-> "LookupError"]
        ELSE [df |-> WithPrice(WithRate(df, triple, r.rate)), exc |-> "none"]

\* df.rename(columns={"Conversion Rate": "Currency Conversion Rate"}): a new
\* frame; the rows keep every other column
Renamed(df) ==
    [i \in 1..Len(df) |->
        [InitialUnit |-> df[i].InitialUnit, FinalUnit |-> df[i].FinalUnit,
         InitialPrice |-> df[i].InitialPrice,
         UOMConvertedPrice |-> df[i].UOMConvertedPrice,
         InitialCurrency |-> df[i].InitialCurrency,
         FinalCurrency |-> df[i].FinalCurrency, Date |-> df[i].Date,
         CurrencyConversionRate |-> df[i].ConversionRate,
         Price |-> df[i].Price]]

NoPass == [on |-> FALSE, key |-> << >>, before |-> << >>, exc |-> "none"]

-----------------------------------------------------------------------------
(* State machine *)

\* the locals of main() and the history, before anything ran
InitLocals ==
    /\ input_df = << >>
    /\ idx = 0
    /\ retry = 0
    /\ data = << >>
    /\ max_years = NoYears
    /\ max_month = NoYears
    /\ attempts = 0
    /\ lastFetch = NoFetch
    /\ startFY = << >>
    /\ produced = {}
    /\ merged = {}
    /\ lastParse = NoParse
    /\ lastMerge = NoMerge
    /\ prevMerge = [c \in {"EUR", "GBP"} |-> NoPrev]
    /\ attempted = << >>
    /\ built = {}
    /\ skipped = {}
    /\ holes = {}
    /\ runYear = 0

\* no converter was called
InitConv ==
    /\ priced = << >>
    /\ temp_df = << >>
    /\ combos = << >>
    /\ cpc = "off"
    /\ cexc = "none"
    /\ ret = << >>
    /\ lastPass = NoPass

\* everything but the environment and the input table
InitRest ==
    /\ InitConv
    /\ now = [year |-> 2023, month |-> 12]
    /\ ticks = 0
    /\ runs = 0
    /\ tables = NoSheets
    /\ backups = NoSheets
    /\ pc = "idle"
    /\ exit = "returned"
    /\ curr = ""
    /\ year = 0
    /\ lists = << >>
    /\ InitLocals

\* one tracked currency, every page, a disk that may fail
Init ==
    /\ world = [pages |-> Responses, disk |-> "unreliable"]
    /\ inputs = << [cur |-> "USD", fy |-> 2023],
                   [cur |-> "EUR", fy |-> 2023] >>
    /\ InitRest

\* the calendar moves on between two invocations
Tick ==
    /\ pc = "idle"
    /\ ticks < MaxTicks
    /\ ticks' = ticks + 1
    /\ now' = IF now.month = 12 THEN [year |-> now.year + 1, month |-> 1]
              ELSE [now EXCEPT !.month = now.month + 1]
    /\ UNCHANGED << attempted, built, skipped, holes, runYear >>
    /\ UNCHANGED convVars
    /\ UNCHANGED << world, runs, inputs, tables, backups, pc, exit, input_df, idx, curr,
                    year, retry, lists, data, max_years, max_month, attempts,
                    lastFetch, startFY, produced, merged, lastParse, lastMerge,
                    prevMerge >>

\* main(), lines 407-414
StartRun ==
    /\ pc = "idle"
    /\ runs < MaxRuns
    /\ runs' = runs + 1
    /\ input_df' = inputs
    /\ idx' = 1
    /\ max_years' = NoYears
    /\ max_month' = NoYears
    /\ pc' = "row"
    /\ exit' = "running"
    /\ curr' = ""
    /\ year' = 0
    /\ retry' = 0
    /\ lists' = << >>
    /\ data' = << >>
    /\ attempts' = 0
    /\ lastFetch' = NoFetch
    /\ startFY' = [i \in 1..Len(inputs) |-> inputs[i].fy]
    /\ produced' = {}
    /\ merged' = {}
    /\ lastParse' = NoParse
    /\ lastMerge' = NoMerge
    /\ attempted' = << >>
    /\ built' = {}
    /\ skipped' = {}
    /\ holes' = holes \cup skipped
    /\ runYear' = now.year
    /\ UNCHANGED convVars
    /\ UNCHANGED << world, now, ticks, inputs, tables, backups, prevMerge >>

\* for index, row in input_df.iterrows(): the loop is over
RowsDone ==
    /\ pc = "row"
    /\ idx > Len(input_df)
    /\ pc' = "finish"
    /\ lastMerge' = NoMerge
    /\ UNCHANGED << attempted, built, skipped, holes, runYear >>
    /\ UNCHANGED convVars
    /\ UNCHANGED << world, now, ticks, runs, inputs, tables, backups, exit, input_df, idx,
                    curr, year, retry, lists, data, max_years, max_month, attempts,
                    lastFetch, startFY, produced, merged, lastParse, prevMerge >>

\* if 'USD' == curr: continue
SkipBase ==
    /\ pc = "row"
    /\ idx <= Len(input_df)
    /\ input_df[idx].cur = "USD"
    /\ curr' = "USD"
    /\ year' = input_df[idx].fy
    /\ data' = << >>
    /\ idx' = idx + 1
    /\ lastMerge' = NoMerge
    /\ UNCHANGED << attempted, built, skipped, holes, runYear >>
    /\ UNCHANGED convVars
    /\ UNCHANGED << world, now, ticks, runs, inputs, tables, backups, pc, exit, input_df,
                    retry, lists, max_years, max_month, attempts, lastFetch,
                    startFY, produced, merged, lastParse, prevMerge >>

\* lines 417-427: a row of another currency starts at its Fetched Year
BeginRow ==
    /\ pc = "row"
    /\ idx <= Len(input_df)
    /\ input_df[idx].cur # "USD"
    /\ curr' = input_df[idx].cur
    /\ year' = input_df[idx].fy
    /\ data' = << >>
    /\ pc' = "year"
    /\ lastFetch' = NoFetch
    /\ lastParse' = NoParse
    /\ lastMerge' = NoMerge
    /\ UNCHANGED << attempted, built, skipped, holes, runYear >>
    /\ UNCHANGED convVars
    /\ UNCHANGED << world, now, ticks, runs, inputs, tables, backups, exit, input_df, idx,
                    retry, lists, max_years, max_month, attempts, startFY,
                    produced, merged, prevMerge >>

\* while year <= current_year: retry = 5
BeginYear ==
    /\ pc = "year"
    /\ year <= now.year
    /\ retry' = RetryBudget
    /\ attempts' = 0
    /\ pc' = "fetch"
    /\ lastFetch' = NoFetch
    /\ attempted' = Append(attempted, << idx, year >>)
    /\ UNCHANGED << built, skipped, holes, runYear >>
    /\ UNCHANGED convVars
    /\ UNCHANGED << world, now, ticks, runs, inputs, tables, backups, exit, input_df, idx,
                    curr, year, lists, data, max_years, max_month,
                    startFY, produced, merged, lastParse, lastMerge, prevMerge >>

\* the while loop ends: year > current_year
YearsDone ==
    /\ pc = "year"
    /\ year > now.year
    /\ pc' = "endrow"
    /\ attempts' = 0
    /\ lastFetch' = NoFetch
    /\ lastParse' = NoParse
    /\ UNCHANGED << attempted, built, skipped, holes, runYear >>
    /\ UNCHANGED convVars
    /\ UNCHANGED << world, now, ticks, runs, inputs, tables, backups, exit, input_df, idx,
                    curr, year, retry, lists, data, max_years, max_month, startFY,
                    produced, merged, lastMerge, prevMerge >>

\* lines 444-453: the request or the markup lookup raised
FetchRaise ==
    /\ pc = "fetch"
    /\ retry > 0
    /\ retry' = retry - 1
    /\ attempts' = attempts + 1
    /\ IF retry - 1 = 0
       THEN /\ year' = year + 1
            /\ pc' = "year"
            /\ lastFetch' = [on |-> TRUE, year |-> year, attempts |-> attempts + 1,
                             ok |-> FALSE, before |-> data]
            /\ lastParse' = NoParse
       ELSE UNCHANGED << year, pc, lastFetch, lastParse >>
    /\ skipped' = IF retry - 1 = 0 THEN skipped \cup {<< idx, year >>} ELSE skipped
    /\ UNCHANGED << attempted, built, holes, runYear >>
    /\ UNCHANGED convVars
    /\ UNCHANGED << world, now, ticks, runs, inputs, tables, backups, exit, input_df, idx,
                    curr, lists, data, max_years, max_month, startFY, produced,
                    merged, lastMerge, prevMerge >>

\* lines 432-443: the page arrived and holds the list
FetchOk ==
    /\ pc = "fetch"
    /\ retry > 0
    /\ \E resp \in world.pages : lists' = resp
    /\ attempts' = attempts + 1
    /\ pc' = "parse"
    /\ UNCHANGED << attempted, built, skipped, holes, runYear >>
    /\ UNCHANGED convVars
    /\ UNCHANGED << world, now, ticks, runs, inputs, tables, backups, exit, input_df, idx,
                    curr, year, retry, data, max_years, max_month, lastFetch,
                    startFY, produced, merged, lastParse, lastMerge, prevMerge >>

\* lines 455-482: the record loop; an exception of it leaves main()
ParseLines ==
    /\ pc = "parse"
    /\ LET r == RecordLoop(curr, year, lists, 1, data)
       IN  /\ data' = r.data
           /\ lastParse' = [on |-> TRUE, lists |-> lists, before |-> data,
                            after |-> r.data, exc |-> r.exc]
           /\ produced' = IF Len(r.data) > Len(data) THEN produced \cup {curr}
                          ELSE produced
           /\ IF r.exc = "none"
              THEN /\ year' = year + 1
                   /\ pc' = "year"
                   /\ lastFetch' = [on |-> TRUE, year |-> year, attempts |-> attempts,
                                    ok |-> TRUE, before |-> data]
                   /\ UNCHANGED exit
              ELSE /\ pc' = "idle"
                   /\ exit' = r.exc
                   /\ UNCHANGED << year, lastFetch >>
    /\ built' = IF Len(RecordLoop(curr, year, lists, 1, data).data) > Len(data)
                THEN built \cup {<< curr, year >>} ELSE built
    /\ UNCHANGED << attempted, skipped, holes, runYear >>
    /\ UNCHANGED convVars
    /\ UNCHANGED << world, now, ticks, runs, inputs, tables, backups, input_df, idx, curr,
                    retry, lists, max_years, max_month, attempts, startFY, merged,
                    lastMerge, prevMerge >>

\* if df.empty: continue
EmptyRow ==
    /\ pc = "endrow"
    /\ data = << >>
    /\ idx' = idx + 1
    /\ pc' = "row"
    /\ UNCHANGED << attempted, built, skipped, holes, runYear >>
    /\ UNCHANGED convVars
    /\ UNCHANGED << world, now, ticks, runs, inputs, tables, backups, exit, input_df, curr,
                    year, retry, lists, data, max_years, max_month, attempts,
                    lastFetch, startFY, produced, merged, lastParse, lastMerge,
                    prevMerge >>

\* lines 488-491: max_month, max_years, writing_all_file(df, sname)
MergeRow ==
    /\ pc = "endrow"
    /\ data # << >>
    /\ max_month' = (curr :> ColMax(data, "Month")) @@ max_month
    /\ max_years' = (curr :> ColMax(data, "Year")) @@ max_years
    /\ merged' = merged \cup {curr}
    /\ \E env \in DiskEnv(world.disk) :
        LET r == writing_all_file(data, curr, tables, backups, now, env)
            sheet == curr \in DOMAIN tables
            loaded == sheet /\ env.load
            ncur == Cardinality(OfPeriod(data, now))
        IN  /\ tables' = r.tables
            /\ backups' = r.backups
            /\ lastMerge' = [on |-> TRUE, product |-> curr, df |-> data,
                             sheet |-> sheet, loaded |-> loaded,
                             existing |-> IF sheet THEN tables[curr] ELSE << >>,
                             now |-> now, name |-> BackupName(data, curr),
                             why |-> r.why, exc |-> r.exc,
                             main |-> r.main, backup |-> r.backup,
                             prev |-> prevMerge[curr]]
            /\ prevMerge' = [prevMerge EXCEPT ![curr] =
                                IF r.exc = "none"
                                THEN [on |-> TRUE, now |-> now, ncur |-> ncur]
                                ELSE NoPrev]
            /\ IF r.exc = "none"
               THEN /\ idx' = idx + 1
                    /\ pc' = "row"
                    /\ UNCHANGED exit
               ELSE /\ pc' = "idle"
                    /\ exit' = r.exc
                    /\ UNCHANGED idx
    /\ UNCHANGED << attempted, built, skipped, holes, runYear >>
    /\ UNCHANGED convVars
    /\ UNCHANGED << world, now, ticks, runs, inputs, input_df, curr, year, retry, lists,
                    data, attempts, lastFetch, startFY, produced, lastParse >>

\* if len(max_years) == 0 or len(max_month) == 0: return
ReturnEarly ==
    /\ pc = "finish"
    /\ (DOMAIN max_years = {} \/ DOMAIN max_month = {})
    /\ pc' = "idle"
    /\ exit' = "returned"
    /\ UNCHANGED << attempted, built, skipped, holes, runYear >>
    /\ UNCHANGED convVars
    /\ UNCHANGED << world, now, ticks, runs, inputs, tables, backups, input_df, idx, curr,
                    year, retry, lists, data, max_years, max_month, attempts,
                    lastFetch, startFY, produced, merged, lastParse, lastMerge,
                    prevMerge >>

\* update_input_file(input_df, max_month, max_years); its touch_excel may raise
UpdateInputs ==
    /\ pc = "finish"
    /\ DOMAIN max_years # {} /\ DOMAIN max_month # {}
    /\ input_df' = update_input_file(input_df, max_years)
    /\ \E ok \in {e.w1 : e \in DiskEnv(world.disk)} :
        IF ok THEN inputs' = input_df' /\ exit' = "returned"
        ELSE inputs' = inputs /\ exit' = "Exception"
    /\ pc' = "idle"
    /\ UNCHANGED << attempted, built, skipped, holes, runYear >>
    /\ UNCHANGED convVars
    /\ UNCHANGED << world, now, ticks, runs, tables, backups, idx, curr, year, retry, lists,
                    data, max_years, max_month, attempts, lastFetch, startFY,
                    produced, merged, lastParse, lastMerge, prevMerge >>

\* two tracked currencies, pages of at most one record, a reliable disk
InitRuns ==
    /\ world = [pages |-> {<< LineTotal >>, << LineDecLow >>, << LineFoo, LineDecHigh >>},
                disk |-> "reliable"]
    /\ inputs = << [cur |-> "USD", fy |-> 2023],
                   [cur |-> "EUR", fy |-> 2023],
                   [cur |-> "GBP", fy |-> 2023] >>
    /\ InitRest

\* the record loop alone, on the lines of one page of year 2023
BuildLines ==
    {<< m, r >> : m \in {"Jan", "Dec", "Foo"},
                  r \in {"2.00", "0.50", "0", "-2.00", "abc"}}
        \cup {<< "Total" >>, << "Dec", "2.00", "31" >>}

BuildLists == UNION {[1..n -> BuildLines] : n \in 0..MaxLines}

InitBuild ==
    /\ world = [pages |-> {}, disk |-> "reliable"]
    /\ inputs = << [cur |-> "EUR", fy |-> 2023] >>
    /\ now = [year |-> 2023, month |-> 12]
    /\ ticks = 0
    /\ runs = 1
    /\ tables = NoSheets
    /\ backups = NoSheets
    /\ pc = "parse"
    /\ exit = "running"
    /\ curr = "EUR"
    /\ year = 2023
    /\ lists \in BuildLists
    /\ InitLocals
    /\ InitConv

NextBuild == ParseLines

Next ==
    \/ Tick
    \/ StartRun
    \/ RowsDone
    \/ SkipBase
    \/ BeginRow
    \/ BeginYear
    \/ YearsDone
    \/ FetchRaise
    \/ FetchOk
    \/ ParseLines
    \/ EmptyRow
    \/ MergeRow
    \/ ReturnEarly
    \/ UpdateInputs

Spec == Init /\ [][Next]_vars

SpecRuns == InitRuns /\ [][Next]_vars

SpecBuild == InitBuild /\ [][NextBuild]_vars

\* one currency listed in two rows that stand at different Fetched Years
InitRows ==
    /\ world = [pages |-> {<< LineTotal >>, << LineDecLow >>}, disk |-> "reliable"]
    /\ inputs = << [cur |-> "USD", fy |-> 2023],
                   [cur |-> "EUR", fy |-> 2023],
                   [cur |-> "EUR", fy |-> 2022] >>
    /\ InitRest

SpecRows == InitRows /\ [][Next]_vars

-----------------------------------------------------------------------------
(* The converters, each called once on a priced-item table *)

\* main() is not running
MainIdle ==
    /\ world = [pages |-> {}, disk |-> "reliable"]
    /\ inputs = << >>
    /\ now = [year |-> 2023, month |-> 12]
    /\ ticks = 0
    /\ runs = 0
    /\ tables = NoSheets
    /\ backups = NoSheets
    /\ pc = "idle"
    /\ exit = "returned"
    /\ curr = ""
    /\ year = 0
    /\ lists = << >>
    /\ InitLocals

Item(iu, fu, price, conv, ic, date) ==
    [InitialUnit |-> iu, FinalUnit |-> fu, InitialPrice |-> price,
     UOMConvertedPrice |-> conv, InitialCurrency |-> ic, FinalCurrency |-> "USD",
     Date |-> date, ConversionRate |-> NaN, Price |-> NaN]

\* items priced per unit, to be converted to their final unit; "stone" is a
\* unit uom_config.json does not list
UomItems ==
    {Item(iu, fu, p, NaN, "EUR", [year |-> 2023, month |-> 6, day |-> 1]) :
        iu \in {"kg", "LB", "stone"}, fu \in {"kg", "lb", "stone"},
        p \in {<< 10, 1 >>, << 3, 1 >>}}

\* items with a converted price, dated within two months; no rate is known
\* for GBP in July 2023
CurrencyItems ==
    {Item("kg", "kg", p, p, ic, d) :
        p \in {<< 20, 1 >>, << 3, 1 >>}, ic \in {"EUR", "GBP"},
        d \in {[year |-> 2023, month |-> 6, day |-> 1],
               [year |-> 2023, month |-> 6, day |-> 15],
               [year |-> 2023, month |-> 7, day |-> 1]}}

TablesOf(items) == UNION {[1..n -> items] : n \in 0..MaxItems}

InitCall(items, which) ==
    /\ MainIdle
    /\ priced \in TablesOf(items)
    /\ temp_df = << >>
    /\ combos = << >>
    /\ cpc = which
    /\ cexc = "none"
    /\ ret = << >>
    /\ lastPass = NoPass

InitUom == InitCall(UomItems, "call_uom")

InitCurrency == InitCall(CurrencyItems, "call_cur")

\* convert_price_for_uom, lines 240-242
UomCall ==
    /\ cpc = "call_uom"
    /\ combos' = unique_uom_combos(priced)
    /\ temp_df' = [i \in 1..Len(priced) |-> priced[i].UOMConvertedPrice]
    /\ cpc' = "uom"
    /\ UNCHANGED << priced, cexc, ret, lastPass >>
    /\ UNCHANGED mainVars

\* lines 243-260: one iteration; a KeyError of the lookup leaves the function
UomPass ==
    /\ cpc = "uom"
    /\ combos # << >>
    /\ LET r == UomPassOf(priced, temp_df, Head(combos))
       IN  /\ priced' = r.df
           /\ temp_df' = r.temp
           /\ lastPass' = [on |-> TRUE, key |-> Head(combos), before |-> priced,
                           exc |-> r.exc]
           /\ IF r.exc = "none"
              THEN combos' = Tail(combos) /\ UNCHANGED << cpc, cexc >>
              ELSE cpc' = "uom_raised" /\ cexc' = r.exc /\ UNCHANGED combos
    /\ UNCHANGED ret
    /\ UNCHANGED mainVars

\* line 262: return df, the caller's table itself
UomReturn ==
    /\ cpc = "uom"
    /\ combos = << >>
    /\ ret' = priced
    /\ cpc' = "uom_returned"
    /\ UNCHANGED << priced, temp_df, combos, cexc, lastPass >>
    /\ UNCHANGED mainVars

\* convert_price_for_currency, line 275
CurrencyCall ==
    /\ cpc = "call_cur"
    /\ combos' = unique_currency_combos(priced)
    /\ cpc' = "cur"
    /\ UNCHANGED << priced, temp_df, cexc, ret, lastPass >>
    /\ UNCHANGED mainVars

\* lines 277-293: one iteration; an error of the lookup leaves the function
CurrencyPass ==
    /\ cpc = "cur"
    /\ combos # << >>
    /\ LET r == CurrencyPassOf(priced, Head(combos))
       IN  /\ priced' = r.df
           /\ lastPass' = [on |-> TRUE, key |-> Head(combos), before |-> priced,
                           exc |-> r.exc]
           /\ IF r.exc = "none"
              THEN combos' = Tail(combos) /\ UNCHANGED << cpc, cexc >>
              ELSE cpc' = "cur_raised" /\ cexc' = r.exc /\ UNCHANGED combos
    /\ UNCHANGED << temp_df, ret >>
    /\ UNCHANGED mainVars

\* lines 295-296: the renamed copy is returned
CurrencyReturn ==
    /\ cpc = "cur"
    /\ combos = << >>
    /\ ret' = Renamed(priced)
    /\ cpc' = "cur_returned"
    /\ UNCHANGED << priced, temp_df, combos, cexc, lastPass >>
    /\ UNCHANGED mainVars

NextUom == UomCall \/ UomPass \/ UomReturn

NextCurrency == CurrencyCall \/ CurrencyPass \/ CurrencyReturn

SpecUom == InitUom /\ [][NextUom]_vars

SpecCurrency == InitCurrency /\ [][NextCurrency]_vars

-----------------------------------------------------------------------------
(* Claims *)

Tracked == {"EUR", "GBP"}

NoRepeatedPeriod(df) ==
    \A i, j \in 1..Len(df) : SamePeriod(df[i], df[j]) => i = j

\* C1: after any sequence of merges, on every path of writing_all_file, the
\* persisted sheet of a currency holds no two records of the same
\* (year, month).
C1_UniquePeriods == \A c \in DOMAIN tables : NoRepeatedPeriod(tables[c])

\* C2: a merge that loaded the existing sheet and persisted a table keeps
\* every loaded record of a period other than the current one, rates
\* unchanged; only a failed load lets the new records alone become the table.
C2_OlderRecordsKept ==
    (lastMerge.on /\ lastMerge.loaded /\ lastMerge.main) =>
        \A i \in 1..Len(lastMerge.existing) :
            ~(lastMerge.existing[i].Year = lastMerge.now.year
                /\ lastMerge.existing[i].Month = lastMerge.now.month)
            => \E j \in 1..Len(tables[lastMerge.product]) :
                  tables[lastMerge.product][j] = lastMerge.existing[i]

\* the merge run last and the one before it, of the same sheet, both returned,
\* ran in the same calendar month and each brought a record of that month
TwoMergesSameMonth ==
    /\ lastMerge.on
    /\ lastMerge.exc = "none"
    /\ lastMerge.prev.on
    /\ lastMerge.prev.now = lastMerge.now
    /\ lastMerge.prev.ncur >= 1
    /\ OfPeriod(lastMerge.df, lastMerge.now) # {}

\* C3: when two successive merges of a currency run in the same calendar
\* month, each with a record of that month among its new records, the table
\* then holds exactly one record of that month, and it is one the second
\* merge brought (replaced, not duplicated, not left stale).
C3_CurrentMonthReplaced ==
    TwoMergesSameMonth =>
        LET t == tables[lastMerge.product]
            cur == OfPeriod(t, lastMerge.now)
        IN  /\ Cardinality(cur) = 1
            /\ \A i \in cur : \E j \in OfPeriod(lastMerge.df, lastMerge.now) :
                  t[i] = lastMerge.df[j]

\* C4: at most 5 requests per (currency, year); after 5 failures the year
\* yields no record and the loop goes on with the next year of the currency;
\* a success ends the attempts of the year.
C4_RetryBudget ==
    /\ attempts <= 5
    /\ (pc = "fetch" => attempts < 5)
    /\ lastFetch.on =>
          /\ pc = "year"
          /\ exit = "running"
          /\ input_df[idx].cur = curr
          /\ year = lastFetch.year + 1
          /\ lastFetch.attempts = attempts
          /\ IF lastFetch.ok
             THEN lastFetch.attempts \in 1..5
             ELSE /\ lastFetch.attempts = 5
                  /\ data = lastFetch.before
                  /\ \A i \in 1..Len(data) : data[i].Year # lastFetch.year

\* C4 witness: a year was given up after its fifth failure and the loop
\* stands at the next year, which is still to be fetched
C4_Witness ==
    /\ lastFetch.on
    /\ ~lastFetch.ok
    /\ lastFetch.attempts = 5
    /\ pc = "year"
    /\ year <= now.year

\* C5: a currency for which the run built no record is not merged and its
\* Fetched Year stays what it was when the run started, whatever the other
\* currencies produced.
C5_NoDataNoProgress ==
    runs > 0 =>
        \A c \in Tracked \ produced :
            /\ c \notin merged
            /\ c \notin DOMAIN max_years
            /\ \A i \in 1..Len(inputs) :
                  inputs[i].cur = c => inputs[i].fy = startFY[i]

\* C5 witness: a run ended in which EUR produced nothing while another
\* currency moved its Fetched Year
C5_Witness ==
    /\ pc = "idle"
    /\ exit = "returned"
    /\ runs > 0
    /\ "EUR" \notin produced
    /\ \E i \in 1..Len(inputs) : inputs[i].fy # startFY[i]

BuiltRecords == {i \in 1..Len(lastParse.after) : i > Len(lastParse.before)}

\* the lines of a page that split into a month abbreviation and a number
WellFormed(line) ==
    Len(line) > 1 /\ line[1] \in DOMAIN month_mapping /\ line[2] \in FloatTokens

C7_StrictlyDescending ==
    \A c \in DOMAIN tables :
        \A i \in 1..(Len(tables[c]) - 1) : Before(tables[c][i], tables[c][i + 1])

\* C8: the backup a merge writes is the existing table after the row of the
\* current period was removed and before the new records were appended; the
\* empty table on a first run.
C8_BackupIsPreMerge ==
    (lastMerge.on /\ lastMerge.backup) =>
        backups[lastMerge.name] =
            IF lastMerge.sheet
            THEN Purged(lastMerge.existing, lastMerge.now.month, lastMerge.now.year)
            ELSE << >>

\* C9: a backup snapshot is write-once: once written under a name, no later
\* merge changes it.
C9_BackupWriteOnce ==
    [][\A k \in DOMAIN backups : k \in DOMAIN backups' /\ backups'[k] = backups[k]]_vars

\* C10: a line that is not '<MonthAbbrev> <rate>' is discarded without an
\* error: the record loop never raises, the well-formed lines of the page
\* all become records and the run goes on.
C10_BadLinesDiscarded ==
    lastParse.on =>
        /\ lastParse.exc = "none"
        /\ exit = "running"
        /\ Cardinality(BuiltRecords)
             = Cardinality({k \in 1..Len(lastParse.lists) :
                               WellFormed(lastParse.lists[k])})

\* the pair or triple is still to be iterated
Pending(key) == \E k \in 1..Len(combos) : combos[k] = key

\* initial_price * factor(initial_unit) / factor(final_unit)
ExpectedUom(row) ==
    FloatDiv(FloatMul(row.InitialPrice, mass_conversion_rates[Lower(row.InitialUnit)]),
             mass_conversion_rates[Lower(row.FinalUnit)])

\* C11: every item's UOM Converted Price is its own initial price times the
\* factor of its initial unit divided by the factor of its final unit; the
\* pass of one unit pair changes the rows of that pair only, so a value an
\* earlier pass set is neither overwritten nor blanked by a later pass.
C11_OwnPairConversion ==
    /\ cpc \in {"uom", "uom_returned"} =>
          \A i \in 1..Len(priced) :
              IF Pending(UomPair(priced[i]))
              THEN IsNaN(priced[i].UOMConvertedPrice)
              ELSE /\ ~IsNaN(priced[i].UOMConvertedPrice)
                   /\ SameFloat(priced[i].UOMConvertedPrice, ExpectedUom(priced[i]))
    /\ (lastPass.on /\ cpc \in {"uom", "uom_returned", "uom_raised"}) =>
          /\ Len(priced) = Len(lastPass.before)
          /\ \A i \in 1..Len(priced) :
                UomPair(priced[i]) # lastPass.key => priced[i] = lastPass.before[i]
    /\ cpc = "uom_returned" => ret = priced

\* C11 witness: the converter returned a table in which two rows of one pair,
\* priced differently, stand around a row of another pair
C11_Witness ==
    /\ cpc = "uom_returned"
    /\ Len(priced) = 3
    /\ UomPair(priced[1]) = UomPair(priced[3])
    /\ UomPair(priced[1]) # UomPair(priced[2])
    /\ ~RatEq(priced[1].InitialPrice, priced[3].InitialPrice)
    /\ \A i \in 1..3 : ~IsNaN(priced[i].UOMConvertedPrice)

\* C12: a unit that is not in the table makes the call end with a lookup
\* error and no item of the caller's table has received a converted price
\* from the call, the items of the pairs iterated earlier included.
C12_NoPartialSuccess ==
    cpc = "uom_raised" =>
        /\ cexc = "KeyError"
        /\ \A i \in 1..Len(priced) : IsNaN(priced[i].UOMConvertedPrice)

\* the rate the lookup gives for the period of the row
RateOf(row) ==
    get_conversion_rate(row.InitialCurrency, row.FinalCurrency, row.Date.year,
                        row.Date.month)

SamePeriodTriple(a, b) ==
    /\ a.InitialCurrency = b.InitialCurrency
    /\ a.FinalCurrency = b.FinalCurrency
    /\ a.Date.year = b.Date.year
    /\ a.Date.month = b.Date.month

\* C13: in the returned table every item's Price is its UOM Converted Price
\* times the rate resolved for its own (initial currency, final currency,
\* period), items of one triple carry the same Currency Conversion Rate, and
\* a triple the lookup cannot resolve ends the call with the lookup's error,
\* the items of that triple carrying no rate and no price.
C13_PriceByOwnTriple ==
    /\ cpc = "cur_returned" =>
          /\ Len(ret) = Len(priced)
          /\ \A i \in 1..Len(ret) :
                /\ RateOf(priced[i]).ok
                /\ ~IsNaN(ret[i].CurrencyConversionRate)
                /\ SameFloat(ret[i].CurrencyConversionRate, RateOf(priced[i]).rate)
                /\ SameFloat(ret[i].Price,
                             FloatMul(priced[i].UOMConvertedPrice,
                                      RateOf(priced[i]).rate))
                /\ ret[i].UOMConvertedPrice = priced[i].UOMConvertedPrice
          /\ \A i, j \in 1..Len(ret) :
                SamePeriodTriple(priced[i], priced[j]) =>
                    SameFloat(ret[i].CurrencyConversionRate,
                              ret[j].CurrencyConversionRate)
    /\ cpc = "cur" =>
          \A k \in 1..Len(priced) :
              ~Pending(CurrencyTriple(priced[k])) => RateOf(priced[k]).ok
    /\ cpc = "cur_raised" =>
          /\ cexc = "LookupError"
          /\ ret = << >>
          /\ ~RateOf([InitialCurrency |-> Head(combos)[1],
                      FinalCurrency |-> Head(combos)[2],
                      Date |-> Head(combos)[3]]).ok
          /\ \A i \in 1..Len(priced) :
                CurrencyTriple(priced[i]) = Head(combos) =>
                    /\ IsNaN(priced[i].ConversionRate)
                    /\ IsNaN(priced[i].Price)

\* C13 witness: the converter returned a table with two EUR items of June
\* 2023 dated on different days around a GBP item
C13_Witness ==
    /\ cpc = "cur_returned"
    /\ Len(ret) = 3
    /\ SamePeriodTriple(priced[1], priced[3])
    /\ priced[1].Date # priced[3].Date
    /\ ~SamePeriodTriple(priced[1], priced[2])
    /\ ~RatEq(priced[1].UOMConvertedPrice, priced[3].UOMConvertedPrice)
    /\ \A i \in 1..3 : ~IsNaN(ret[i].Price)

\* C14: the backup of a merge is named by the latest period of new_records:
\* the (month, year) of the name is the greatest (year, month) that occurs
\* among the new records, also when they span several years.
C14_BackupNamedByLatestPeriod ==
    lastMerge.on =>
        \E i \in 1..Len(lastMerge.df) :
            /\ lastMerge.df[i].Month = lastMerge.name[1]
            /\ lastMerge.df[i].Year = lastMerge.name[2]
            /\ \A j \in 1..Len(lastMerge.df) : ~Before(lastMerge.df[j], lastMerge.df[i])

\* a record of a year after y was built for currency c in this run
LaterBuilt(c, y) == \E b \in built : b[1] = c /\ b[2] > y

RECURSIVE ExpectedFrom(_, _, _, _)
ExpectedFrom(df, fys, cy, i) ==
    IF i > Len(df) THEN << >>
    ELSE (IF df[i].cur = "USD" \/ fys[i] > cy THEN << >>
          ELSE [k \in 1..(cy - fys[i] + 1) |-> << i, fys[i] + k - 1 >>])
         \o ExpectedFrom(df, fys, cy, i + 1)

\* C16: every invocation runs to completion over all currencies, whatever the
\* outcomes of the fetch attempts: when it has ended it has returned, and the
\* years from Fetched Year to the current year of every row of a currency
\* other than USD were attempted, in the order of the input table.
C16_RunsToCompletion ==
    (pc = "idle" /\ runs > 0) =>
        /\ exit = "returned"
        /\ attempted = ExpectedFrom(input_df, startFY, runYear, 1)

\* C17: Fetched Year of a row never decreases: after a run it is what it was
\* or the greatest year of which the row's currency got a record in the run,
\* which is at least what it was, also with a currency listed in several rows.
C17_FetchedYearMonotone ==
    (pc = "idle" /\ runs > 0) =>
        \A i \in 1..Len(inputs) :
            /\ inputs[i].fy >= startFY[i]
            /\ \/ inputs[i].fy = startFY[i]
               \/ /\ << inputs[i].cur, inputs[i].fy >> \in built
                  /\ ~LaterBuilt(inputs[i].cur, inputs[i].fy)

====
